---- MODULE Spec2Model ----
(***************************************************************************)
(* ELLIE_fibre_positions.py: reading the install table, the geometric      *)
(* placement of the fibre pair on a hex panel, the comparison of the       *)
(* calculated positions with the FIBRE tables of the database, and the     *)
(* preparation of the new FIBRE tables.                                    *)
(*                                                                         *)
(* Strings are sequences of one-character strings, so that slices          *)
(* (s[:2], s[:4], s[-2:], s[-1]) and the substring test are computed.      *)
(* Lengths are fixed-point numbers with two decimals (ONE is 1.0): a       *)
(* coordinate of the PMT file in cm is held in units of 0.01 cm, a         *)
(* coordinate of the FIBRE table in mm in units of 0.01 mm.  The cells of  *)
(* the input files lie on one line and the direction vectors of the        *)
(* database are parallel to a coordinate axis, so that every square root   *)
(* and every division of the calculation is exact.                         *)
(***************************************************************************)
EXTENDS Integers, Sequences, FiniteSets, TLC

\* Longest install table read.
MaxRows == 2

\* 1.0 in fixed point (SetMag(1.), the threshold np.abs(diff) > 1).
ONE == 100

(***************************************************************************)
(* Strings                                                                 *)
(***************************************************************************)
Min(a, b) == IF a < b THEN a ELSE b
Max(a, b) == IF a > b THEN a ELSE b
Abs(a) == IF a < 0 THEN -a ELSE a
SetMax(S) == CHOOSE m \in S : \A k \in S : k <= m

\* s[:n]
Take(s, n) == SubSeq(s, 1, Min(n, Len(s)))
\* s[-n:]
LastN(s, n) == SubSeq(s, Max(1, Len(s) - n + 1), Len(s))
\* sub in s
Contains(sub, s) ==
    \E i \in 0..(Len(s) - Len(sub)) : SubSeq(s, i + 1, i + Len(sub)) = sub

Digits == {"0", "1", "2", "3", "4", "5", "6", "7", "8", "9"}
DigitVal(c) ==
    CASE c = "0" -> 0 [] c = "1" -> 1 [] c = "2" -> 2 [] c = "3" -> 3
      [] c = "4" -> 4 [] c = "5" -> 5 [] c = "6" -> 6 [] c = "7" -> 7
      [] c = "8" -> 8 [] c = "9" -> 9
DigitChar(n) ==
    CASE n = 0 -> "0" [] n = 1 -> "1" [] n = 2 -> "2" [] n = 3 -> "3"
      [] n = 4 -> "4" [] n = 5 -> "5" [] n = 6 -> "6" [] n = 7 -> "7"
      [] n = 8 -> "8" [] n = 9 -> "9"

RECURSIVE Strip(_)
\* s.strip(): int() ignores blanks around the number
Strip(s) ==
    IF s = <<>> THEN s
    ELSE IF Head(s) = " " THEN Strip(Tail(s))
    ELSE IF s[Len(s)] = " " THEN Strip(SubSeq(s, 1, Len(s) - 1))
    ELSE s

Unsigned(s) ==
    LET t == Strip(s)
    IN  IF t # <<>> /\ Head(t) \in {"+", "-"} THEN Tail(t) ELSE t

\* int(s) succeeds: blanks, an optional sign, then at least one digit and
\* nothing but digits
IsInt(s) ==
    LET d == Unsigned(s)
    IN  d # <<>> /\ \A i \in 1..Len(d) : d[i] \in Digits

RECURSIVE DigitsValue(_)
DigitsValue(d) ==
    IF d = <<>> THEN 0
    ELSE 10 * DigitsValue(SubSeq(d, 1, Len(d) - 1)) + DigitVal(d[Len(d)])

\* int(s), for a string on which it succeeds
ParseInt(s) ==
    LET t == Strip(s)
    IN  IF Head(t) = "-" THEN -DigitsValue(Unsigned(s)) ELSE DigitsValue(Unsigned(s))

(***************************************************************************)
(* ROOT.TVector3, in fixed point                                           *)
(***************************************************************************)
Vec(a, b, c) == [x |-> a, y |-> b, z |-> c]
VAdd(a, b) == Vec(a.x + b.x, a.y + b.y, a.z + b.z)
VSub(a, b) == Vec(a.x - b.x, a.y - b.y, a.z - b.z)
\* vector * scalar, the scalar in fixed point
VScale(a, s) == Vec((a.x * s) \div ONE, (a.y * s) \div ONE, (a.z * s) \div ONE)
Dot(a, b) == a.x * b.x + a.y * b.y + a.z * b.z
\* TVector3::Cross, of a length and a unit vector
Cross(a, b) ==
    Vec((a.y * b.z - a.z * b.y) \div ONE,
        (a.z * b.x - a.x * b.z) \div ONE,
        (a.x * b.y - a.y * b.x) \div ONE)

RECURSIVE SqrtFrom(_, _)
SqrtFrom(n, r) == IF (r + 1) * (r + 1) > n THEN r ELSE SqrtFrom(n, r + 1)
\* the square root of the sum of squares of one non-zero component is that
\* component's absolute value; otherwise count up
ISqrt(n, guess) == IF guess * guess = n THEN guess ELSE SqrtFrom(n, 0)
Mag(a) == ISqrt(Dot(a, a), Max(Abs(a.x), Max(Abs(a.y), Abs(a.z))))

\* TVector3::SetMag: a zero vector can't be stretched and is left as it is
\* (ROOT warns and goes on)
SetMag(a, m) ==
    IF Mag(a) = 0 THEN a
    ELSE Vec((a.x * m) \div Mag(a), (a.y * m) \div Mag(a), (a.z * m) \div Mag(a))

\* TVector3::Angle in degrees: 0 when either vector is zero; the input
\* vectors are perpendicular or parallel
Angle(a, b) ==
    CASE a = Vec(0, 0, 0) \/ b = Vec(0, 0, 0) -> 0
      [] a # Vec(0, 0, 0) /\ b # Vec(0, 0, 0) /\ Dot(a, b) = 0 -> 90
      [] Dot(a, b) > 0 /\ Cross(a, b) = Vec(0, 0, 0) -> 0
      [] Dot(a, b) < 0 /\ Cross(a, b) = Vec(0, 0, 0) -> 180

\* int(round(a, -1)) of a non-negative whole number of degrees
Round10(a) == ((a + 5) \div 10) * 10


(***************************************************************************)
(* The input files and the database                                        *)
(***************************************************************************)
none == <<"n", "o", "n", "e">>
FT1 == <<"F", "T", "1">>
FT2 == <<"F", "T", "2">>
S1B == <<"S", "1", "B">>
S2 == <<"S", "2">>

\* A cell of the PMT file after the header line, empty fields removed:
\* row[1] the hex cell, row[3..5] its position, row[6] panel and cell number
\* as in "P001-04".  Panel 1 lies on the positive y axis of the plane
\* x = 800 cm, panel 2 on the negative; the cells of panel 2 carry a fifth
\* character in row[1].
CellName(p, i) == <<"H", DigitChar(p), DigitChar(i \div 10), DigitChar(i % 10)>>
PanelCell(p, i) ==
    <<"P", "0", "0", DigitChar(p), "-", DigitChar(i \div 10), DigitChar(i % 10)>>
CellRow(p, i) ==
    [id  |-> IF p = 2 THEN CellName(p, i) \o <<"x">> ELSE CellName(p, i),
     pos |-> IF p = 1 THEN Vec(80000, 1000 * i, 0) ELSE Vec(80000, -1000 * (i + 1), 0),
     pc  |-> PanelCell(p, i)]
PanelRows(p, lo, hi) == [k \in 1..(hi - lo + 1) |-> CellRow(p, lo + k - 1)]

\* The PMT files tried: panels of 7 and 10 cells, of 9 and 12, of 10 and 4,
\* and one whose panels have no cell 4 and no cell 10.
PmtFiles ==
    { PanelRows(1, 1, 7) \o PanelRows(2, 1, 10),
      PanelRows(2, 1, 12) \o PanelRows(1, 1, 9),
      PanelRows(1, 1, 10) \o PanelRows(2, 1, 4),
      PanelRows(1, 1, 3) \o PanelRows(2, 0, 9) }

\* PANELINFO: panel_number and the pointing vector (u, v, w) of each panel.
PanelInfos ==
    { << [panel_number |-> 1, uvw |-> Vec(0, 0, 100)],
         [panel_number |-> 2, uvw |-> Vec(-100, 0, 0)] >>,
      << [panel_number |-> 2, uvw |-> Vec(0, 0, -200)],
         [panel_number |-> 1, uvw |-> Vec(0, 100, 0)] >>,
      << [panel_number |-> 1, uvw |-> Vec(0, 0, 100)] >> }

\* The FIBRE tables: position (x, y, z) in mm and pointing vector (u, v, w)
\* of a fibre.  The first database has a table for every fibre, the second
\* lacks three.
FibreTable(pos, dir) ==
    [x |-> pos.x, y |-> pos.y, z |-> pos.z, u |-> dir.x, v |-> dir.y, w |-> dir.z]
FibreDbs ==
    { (FT1 \o <<"A">>) :> FibreTable(Vec(801200, 0, 0), Vec(-100, 0, 0))
        @@ (FT1 \o <<"B">>) :> FibreTable(Vec(801200, 555500, 555500), Vec(0, 100, -100))
        @@ (FT2 \o <<"A">>) :> FibreTable(Vec(801510, 0, 0), Vec(-100, 0, 0))
        @@ (FT2 \o <<"B">>) :> FibreTable(Vec(800510, 0, 0), Vec(-100, 0, 0))
        @@ S1B :> FibreTable(Vec(798800, 555500, 555500), Vec(0, 100, -100))
        @@ S2 :> FibreTable(Vec(800000, 0, 0), Vec(-100, 0, 0)),
      (FT1 \o <<"B">>) :> FibreTable(Vec(800510, 0, 0), Vec(-100, 0, 0))
        @@ (FT2 \o <<"A">>) :> FibreTable(Vec(798800, 0, 0), Vec(-100, 0, 0))
        @@ S1B :> FibreTable(Vec(801510, 0, 0), Vec(100, 0, 0)) }

\* A row of the install table: the fields the script reads are row[0] (node),
\* row[2] and row[3] (fibre, and fibre as actually installed), row[8] and
\* row[9] (host and neighbour hex), row[12] and row[13] (as actually
\* installed).
InstallRow(node, fibre, fibre2, host, neigh, host2, neigh2) ==
    << node, <<"-">>, fibre, fibre2, <<>>, <<>>, <<>>, <<>>, host, neigh,
       <<>>, <<>>, host2, neigh2 >>
InstallRows ==
    { \* FT001 on the central cell of panel 1, no neighbour
      InstallRow(<<"1", "2">>, FT1, <<>>, CellName(1, 4), none, <<>>, <<>>),
      \* FT002 on panel 2
      InstallRow(<<" ", "7">>, FT2, <<>>, CellName(2, 10), CellName(2, 3), <<>>, <<>>),
      InstallRow(<<"4">>, FT2, <<>>, CellName(2, 2), none, <<>>, <<>>),
      \* installed elsewhere than planned, the neighbour not in the PMT file
      InstallRow(<<"3">>, FT2, S1B, CellName(1, 2), CellName(1, 3),
                 CellName(1, 5), <<"H", "4", "z", "z">>),
      \* the host not in the PMT file
      InstallRow(<<"5">>, S2, <<>>, <<"H", "9", "z", "z">>, CellName(1, 4), <<>>, <<>>),
      \* the neighbour is the central cell of a panel of up to 9 cells
      InstallRow(<<"8">>, S2, <<>>, CellName(1, 3), CellName(1, 4), <<>>, <<>>),
      \* the node is not a number
      InstallRow(<<"n", "/", "a">>, FT1, <<>>, CellName(1, 1), CellName(1, 2), <<>>, <<>>),
      \* a line cut short after the fibre columns
      Take(InstallRow(<<"6">>, S2, <<>>, CellName(1, 1), none, <<>>, <<>>), 5) }

InstallTables == UNION { [1..n -> InstallRows] : n \in 0..MaxRows }

(***************************************************************************)
(* State                                                                   *)
(***************************************************************************)
VARIABLES
    install,        \* the rows of the install table (options.install)
    pmt_file,       \* the rows of the PMT file (options.pmt)
    panelinfo,      \* the PANELINFO table of the database
    fibre_db,       \* the FIBRE tables of the database, by fibre
    no_table,       \* what the database hands out for a fibre without a table
    task,           \* the batch operation run after reading
    pc,             \* "read", "compare", "make", "done", "crashed"
    row_no,         \* the next row of the install table
    fibres, nodes, pmt_hex, neighbour_hex,
    n,              \* the position of the loop over fibres
    placed,         \* what calc_fibre_placement gave, one entry per call
    printed,        \* the lines printed
    new_tables      \* the files saved under ./new_tables, by fibre

vars == << install, pmt_file, panelinfo, fibre_db, no_table, task, pc, row_no,
           fibres, nodes, pmt_hex, neighbour_hex, n, placed, printed, new_tables >>
inputs == << install, pmt_file, panelinfo, fibre_db, no_table, task >>

(***************************************************************************)
(* read_install_table                                                      *)
(***************************************************************************)
\* d[k] = v
Put(d, k, v) == [q \in (DOMAIN d) \cup {k} |-> IF q = k THEN v ELSE d[q]]

\* the fibre, the host hex and the neighbour hex of a row: the columns of
\* what was actually installed, when filled in
row_fibre(row) == IF row[4] = <<>> THEN row[3] ELSE row[4]
row_host(row) == IF row[13] = <<>> THEN row[9] ELSE row[13]
row_neighbour(row) == IF row[13] = <<>> THEN row[10] ELSE row[14]

\* int(row[0]) raises: also on a row without fields
row_skipped(row) == IF Len(row) = 0 THEN TRUE ELSE ~IsInt(row[1])
\* row[3], row[12], row[8], row[9] or row[13] is past the end of the row
row_short(row) == IF Len(row) < 13 THEN TRUE ELSE (row[13] # <<>> /\ Len(row) < 14)

IsFT(fibre) == Take(fibre, 2) = <<"F", "T">>

add_ft_onlyA(d, fibre, v) == Put(d, fibre \o <<"A">>, v)
\* d["%sA" % fibre] = v; d["%sB" % fibre] = v
add_ft(d, fibre, v) == Put(Put(d, fibre \o <<"A">>, v), fibre \o <<"B">>, v)

Reading == pc = "read" /\ row_no <= Len(install)

ReadSkip ==
    /\ Reading
    /\ row_skipped(install[row_no])
    /\ row_no' = row_no + 1
    /\ UNCHANGED << inputs, pc, fibres, nodes, pmt_hex, neighbour_hex, n, placed,
                    printed, new_tables >>

\* IndexError: nothing catches it
ReadIndexError ==
    /\ Reading
    /\ ~row_skipped(install[row_no])
    /\ row_short(install[row_no])
    /\ pc' = "crashed"
    /\ UNCHANGED << inputs, row_no, fibres, nodes, pmt_hex, neighbour_hex, n, placed,
                    printed, new_tables >>

ReadFT ==
    /\ Reading
    /\ ~row_skipped(install[row_no])
    /\ ~row_short(install[row_no])
    /\ LET row == install[row_no]
           fibre == row_fibre(row)
       IN  /\ IsFT(fibre)
           /\ fibres' = fibres \o << fibre \o <<"A">>, fibre \o <<"B">> >>
           /\ nodes' = add_ft(nodes, fibre, ParseInt(row[1]))
           /\ pmt_hex' = add_ft(pmt_hex, fibre, row_host(row))
           /\ neighbour_hex' = add_ft(neighbour_hex, fibre, row_neighbour(row))
    /\ row_no' = row_no + 1
    /\ UNCHANGED << inputs, pc, n, placed, printed, new_tables >>

ReadOther ==
    /\ Reading
    /\ ~row_skipped(install[row_no])
    /\ ~row_short(install[row_no])
    /\ LET row == install[row_no]
           fibre == row_fibre(row)
       IN  /\ ~IsFT(fibre)
           /\ fibres' = Append(fibres, fibre)
           /\ nodes' = Put(nodes, fibre, ParseInt(row[1]))
           /\ pmt_hex' = Put(pmt_hex, fibre, row_host(row))
           /\ neighbour_hex' = Put(neighbour_hex, fibre, row_neighbour(row))
    /\ row_no' = row_no + 1
    /\ UNCHANGED << inputs, pc, n, placed, printed, new_tables >>

\* the table is read: main goes on to the batch operation
ReadReturn ==
    /\ pc = "read"
    /\ row_no > Len(install)
    /\ pc' = task
    /\ n' = 1
    /\ UNCHANGED << inputs, row_no, fibres, nodes, pmt_hex, neighbour_hex, placed,
                    printed, new_tables >>


(***************************************************************************)
(* get_pmt_coordinates                                                     *)
(***************************************************************************)
Raised(e) == [ok |-> FALSE, error |-> e]

correct_fields_swapped(host_hex, neighbour) ==
    IF Contains(none, neighbour) THEN << neighbour, neighbour >> ELSE << host_hex, neighbour >>
\* if "none" in neighbour_hex: neighbour_hex = host_hex
correct_fields(host_hex, neighbour) ==
    IF Contains(none, neighbour) THEN << host_hex, host_hex >> ELSE << host_hex, neighbour >>

\* the rows whose row[1][:4] is the hex cell
matching(file, hex) == { k \in 1..Len(file) : Take(file[k].id, 4) = hex }

Bound(v) == [ok |-> TRUE, vec |-> v]

neighbour_lookup_uncaught(file, neighbour, host_vec) ==
    IF matching(file, neighbour) = {} THEN Raised("NameError")
    ELSE Bound(file[SetMax(matching(file, neighbour))].pos)
\* neighbour_vec: of the last matching row; when the first loop left the name
\* unbound, the except of line 132 binds it to host_vec
neighbour_lookup(file, neighbour, host_vec) ==
    IF matching(file, neighbour) = {} THEN Bound(host_vec)
    ELSE Bound(file[SetMax(matching(file, neighbour))].pos)

\* the rows whose row[6][:4] is the panel
panel_rows(file, panel_name) == { k \in 1..Len(file) : Take(file[k].pc, 4) = panel_name }
\* panel_pmts: int(row[6][-2:]) -> position, a later row replacing an earlier
panel_pmts(file, panel_name) ==
    LET ks == panel_rows(file, panel_name)
        key(k) == ParseInt(LastN(file[k].pc, 2))
    IN  [ i \in { key(k) : k \in ks } |-> file[SetMax({ k \in ks : key(k) = i })].pos ]

central_key_over_ten(count) == IF count > 10 THEN 10 ELSE 4
\* the key of the central PMT in a panel of `count` cells
central_key(count) == IF count > 9 THEN 10 ELSE 4

get_pmt_coordinates(host_hex, neighbour, file) ==
    LET hex == correct_fields(host_hex, neighbour)
        hs == matching(file, hex[1])
    IN  IF hs = {}
        \* host_vec and panel_name are never bound: line 133 raises when the
        \* neighbour is not found either, line 144 otherwise
        THEN Raised("UnboundLocalError")
        ELSE
          LET host_vec == file[SetMax(hs)].pos
              panel_name == Take(file[SetMax(hs)].pc, 4)
              neighbour_vec == neighbour_lookup(file, hex[2], host_vec)
              ks == panel_rows(file, panel_name)
          IN  IF ~neighbour_vec.ok THEN neighbour_vec
              ELSE IF \E k \in ks : ~IsInt(LastN(file[k].pc, 2))
              THEN Raised("ValueError")
              ELSE
                LET pmts == panel_pmts(file, panel_name)
                    key == central_key(Cardinality(DOMAIN pmts))
                IN  IF key \notin DOMAIN pmts THEN Raised("KeyError")
                    ELSE IF ~IsInt(Tail(panel_name)) THEN Raised("ValueError")
                    ELSE [ok |-> TRUE,
                          central_vec |-> pmts[key],
                          host_vec |-> host_vec,
                          neighbour_vec |-> neighbour_vec.vec,
                          panel |-> ParseInt(Tail(panel_name))]

(***************************************************************************)
(* calc_fibre_placement                                                    *)
(***************************************************************************)
hex_size == 1705
plate_height == 30 + 22
\* hex_size * cos(30 deg), to the nearest 0.01 cm
hex_radius == (hex_size * 866 + 500) \div 1000
fibre_separation == 51

\* vec_to_centre: (u, v, w) of the first entry of PANELINFO with that
\* panel_number, at magnitude 1
vec_to_centre(pinfo, panel) ==
    LET index == CHOOSE i \in 1..Len(pinfo) :
                     /\ pinfo[i].panel_number = panel
                     /\ \A j \in 1..(i - 1) : pinfo[j].panel_number # panel
    IN  SetMag(pinfo[index].uvw, ONE)

cent_to_neig_unit(g) == SetMag(VSub(g.neighbour_vec, g.central_vec), ONE)

\* the vector to the mounted plate
plate_vec(g) == VAdd(g.host_vec, VScale(cent_to_neig_unit(g), hex_radius + plate_height))

\* the correction for the 3D curve of the PSUP
curve_correction(g, to_centre) == SetMag(Cross(VSub(plate_vec(g), g.host_vec), to_centre), ONE)

positionA(plate, curve) == VAdd(plate, VScale(curve, fibre_separation))
positionB_same_side(plate, curve) == VAdd(plate, VScale(curve, fibre_separation))
positionB(plate, curve) == VSub(plate, VScale(curve, fibre_separation))

\* The angles and distances computed after the positions (da, db, aa, ab) go
\* into no result and raise nothing.
calc_fibre_placement(host_hex, neighbour, file, pinfo) ==
    LET g == get_pmt_coordinates(host_hex, neighbour, file)
    IN  IF ~g.ok THEN g
        ELSE IF \A i \in 1..Len(pinfo) : pinfo[i].panel_number # g.panel
        THEN Raised("ValueError")
        ELSE
          LET curve == curve_correction(g, vec_to_centre(pinfo, g.panel))
          IN  [ok |-> TRUE,
               A |-> positionA(plate_vec(g), curve),
               B |-> positionB(plate_vec(g), curve)]


(***************************************************************************)
(* compare_position_calculations                                           *)
(***************************************************************************)
Comparing == pc = "compare" /\ n <= Len(fibres)

\* the call of the loop body, and what it gave
placement(fibre) ==
    [fibre |-> fibre, host |-> pmt_hex[fibre], neighbour |-> neighbour_hex[fibre],
     result |-> calc_fibre_placement(pmt_hex[fibre], neighbour_hex[fibre], pmt_file, panelinfo)]

\* table.GetD("x") succeeds
has_table(fibre) == fibre \in DOMAIN fibre_db

compared_always_A(fibre, result) == result.A
\* posB for a fibre whose name ends in "B", posA for any other
compared(fibre, result) == IF fibre[Len(fibre)] = "B" THEN result.B ELSE result.A

\* np.abs(table.GetD("x")/10. - pos.x()) > 1.  A database value in units of
\* 0.01 mm is, divided by 10, the value in cm in units of 0.001 cm.
discrepancy(db_x, pos_x) == Abs(db_x - 10 * pos_x) > 10 * ONE

\* calc_fibre_placement raises (or fibre[-1] of an empty name does): nothing
\* catches it and the loop ends there
CompareRaises ==
    /\ Comparing
    /\ LET p == placement(fibres[n])
       IN  /\ ~p.result.ok \/ (has_table(fibres[n]) /\ fibres[n] = <<>>)
           /\ placed' = Append(placed, p)
    /\ pc' = "crashed"
    /\ UNCHANGED << inputs, row_no, fibres, nodes, pmt_hex, neighbour_hex, n, printed,
                    new_tables >>

\* no x in the database: "Coundn't access x, y, z variables ..., skipping"
CompareSkip ==
    /\ Comparing
    /\ LET p == placement(fibres[n])
       IN  /\ p.result.ok
           /\ ~has_table(fibres[n])
           /\ placed' = Append(placed, p)
    /\ printed' = Append(printed, [kind |-> "skipping", fibre |-> fibres[n]])
    /\ n' = n + 1
    /\ UNCHANGED << inputs, pc, row_no, fibres, nodes, pmt_hex, neighbour_hex, new_tables >>

CompareCheck ==
    /\ Comparing
    /\ LET fibre == fibres[n]
           p == placement(fibre)
       IN  /\ p.result.ok
           /\ has_table(fibre)
           /\ fibre # <<>>
           /\ placed' = Append(placed, p)
           /\ printed' =
                IF discrepancy(fibre_db[fibre].x, compared(fibre, p.result).x)
                THEN Append(printed,
                            [kind |-> "discrepancy", fibre |-> fibre,
                             host |-> pmt_hex[fibre], neighbour |-> neighbour_hex[fibre],
                             database |-> Vec(fibre_db[fibre].x, fibre_db[fibre].y,
                                              fibre_db[fibre].z),
                             calculated |-> compared(fibre, p.result)])
                ELSE printed
    /\ n' = n + 1
    /\ UNCHANGED << inputs, pc, row_no, fibres, nodes, pmt_hex, neighbour_hex, new_tables >>

CompareReturn ==
    /\ pc = "compare"
    /\ n > Len(fibres)
    /\ pc' = "done"
    /\ UNCHANGED << inputs, row_no, fibres, nodes, pmt_hex, neighbour_hex, n, placed,
                    printed, new_tables >>

(***************************************************************************)
(* get_pointing_angle, make_new_db_files                                   *)
(***************************************************************************)
get_pointing_angle_of_nothing(fibre, db) ==
    IF fibre \in DOMAIN db
    THEN [ok |-> TRUE,
          angle |-> 180 - Angle(Vec(db[fibre].x, db[fibre].y, db[fibre].z),
                                Vec(db[fibre].u, db[fibre].v, db[fibre].w))]
    ELSE [ok |-> TRUE, angle |-> 180 - Angle(Vec(0, 0, 0), Vec(0, 0, 0))]
\* 180 - the angle between the position and the pointing vector; without an
\* entry the vectors are never bound and the return raises
get_pointing_angle(fibre, db) ==
    IF fibre \in DOMAIN db
    THEN [ok |-> TRUE,
          angle |-> 180 - Angle(Vec(db[fibre].x, db[fibre].y, db[fibre].z),
                                Vec(db[fibre].u, db[fibre].v, db[fibre].w))]
    ELSE Raised("UnboundLocalError")

Making == pc = "make" /\ n <= Len(fibres)

\* GetDefaultTable gave a table on which SetI and SaveAs work
table_usable(fibre) == has_table(fibre) \/ no_table = "empty"

\* table.SetI(...) three times, table.SaveAs("./new_tables/%s.json" % fibre)
saved(fibre, angle) ==
    Put(new_tables, fibre,
        [psup_pannel |-> nodes[fibre], pointing_angle |-> angle, fibre_status |-> 0])

MakeFT ==
    /\ Making
    /\ IsFT(fibres[n])
    /\ table_usable(fibres[n])
    /\ new_tables' = saved(fibres[n], 0)
    /\ n' = n + 1
    /\ UNCHANGED << inputs, pc, row_no, fibres, nodes, pmt_hex, neighbour_hex, placed,
                    printed >>

MakeAngle ==
    /\ Making
    /\ ~IsFT(fibres[n])
    /\ get_pointing_angle(fibres[n], fibre_db).ok
    /\ table_usable(fibres[n])
    /\ new_tables' = saved(fibres[n], Round10(get_pointing_angle(fibres[n], fibre_db).angle))
    /\ printed' = IF has_table(fibres[n]) THEN printed
                  ELSE Append(printed, [kind |-> "no reference", fibre |-> fibres[n]])
    /\ n' = n + 1
    /\ UNCHANGED << inputs, pc, row_no, fibres, nodes, pmt_hex, neighbour_hex, placed >>

\* get_pointing_angle prints "Refernce to fibre ... does not exist" and
\* raises; the except of the loop goes on to the next fibre
MakeSkip ==
    /\ Making
    /\ ~IsFT(fibres[n])
    /\ ~get_pointing_angle(fibres[n], fibre_db).ok
    /\ printed' = Append(printed, [kind |-> "no reference", fibre |-> fibres[n]])
    /\ n' = n + 1
    /\ UNCHANGED << inputs, pc, row_no, fibres, nodes, pmt_hex, neighbour_hex, placed,
                    new_tables >>

\* table.SetI on no table raises outside the try
MakeRaises ==
    /\ Making
    /\ IsFT(fibres[n]) \/ get_pointing_angle(fibres[n], fibre_db).ok
    /\ ~table_usable(fibres[n])
    /\ pc' = "crashed"
    /\ printed' = IF IsFT(fibres[n]) \/ has_table(fibres[n]) THEN printed
                  ELSE Append(printed, [kind |-> "no reference", fibre |-> fibres[n]])
    /\ UNCHANGED << inputs, row_no, fibres, nodes, pmt_hex, neighbour_hex, n, placed,
                    new_tables >>

MakeReturn ==
    /\ pc = "make"
    /\ n > Len(fibres)
    /\ pc' = "done"
    /\ UNCHANGED << inputs, row_no, fibres, nodes, pmt_hex, neighbour_hex, n, placed,
                    printed, new_tables >>

(***************************************************************************)
(* The run                                                                 *)
(***************************************************************************)
Init ==
    /\ install \in InstallTables
    /\ \/ /\ task = "compare"
          /\ pmt_file \in PmtFiles
          /\ panelinfo \in PanelInfos
          /\ fibre_db \in FibreDbs
          /\ no_table = "null"
       \/ /\ task = "make"
          /\ pmt_file = <<>>
          /\ panelinfo = <<>>
          /\ fibre_db \in FibreDbs
          /\ no_table \in {"null", "empty"}
    /\ pc = "read"
    /\ row_no = 1
    /\ fibres = <<>>
    /\ nodes = <<>>
    /\ pmt_hex = <<>>
    /\ neighbour_hex = <<>>
    /\ n = 0
    /\ placed = <<>>
    /\ printed = <<>>
    /\ new_tables = <<>>

Next ==
    \/ ReadSkip \/ ReadIndexError \/ ReadFT \/ ReadOther \/ ReadReturn
    \/ CompareRaises \/ CompareSkip \/ CompareCheck \/ CompareReturn
    \/ MakeFT \/ MakeAngle \/ MakeSkip \/ MakeRaises \/ MakeReturn

Spec == Init /\ [][Next]_vars


(***************************************************************************)
(* Properties                                                              *)
(***************************************************************************)
Calls == 1..Len(placed)
\* no row of the PMT file has this hex cell in row[1][:4]
Absent(hex) == \A k \in 1..Len(pmt_file) : Take(pmt_file[k].id, 4) # hex
Sentinel(hex) == Contains(none, hex)
\* the install table is read and the loop over the fibres has ended
Ended == row_no > Len(install) /\ pc \in {"done", "crashed"}
Separated(result) == result.A # result.B

\* C1: in compare_position_calculations a fibre whose placement fails ends
\* the processing of that fibre only: when the run has ended, every fibre of
\* the list has been processed.
C1_FailureIsolated ==
    (task = "compare" /\ Ended) => Len(placed) = Len(fibres)

\* the rows of the PMT file in the panel of the host hex
C2_members(host_hex) ==
    LET h == CHOOSE k \in 1..Len(pmt_file) : Take(pmt_file[k].id, 4) = host_hex
    IN  { k \in 1..Len(pmt_file) : Take(pmt_file[k].pc, 4) = Take(pmt_file[h].pc, 4) }
\* C2: the central vector returned by get_pmt_coordinates is the position of
\* cell 10 of the host's panel when the panel has more than 9 cells, and of
\* cell 4 otherwise.
C2_CentralCell ==
    \A i \in Calls :
        LET g == get_pmt_coordinates(placed[i].host, placed[i].neighbour, pmt_file)
            members == C2_members(placed[i].host)
            number == IF Cardinality(members) > 9 THEN 10 ELSE 4
        IN  g.ok =>
              \E k \in members :
                  /\ ParseInt(LastN(pmt_file[k].pc, 2)) = number
                  /\ g.central_vec = pmt_file[k].pos
C2_Witness ==
    \E i, j \in Calls :
        /\ placed[i].result.ok /\ Cardinality(C2_members(placed[i].host)) > 9
        /\ placed[j].result.ok /\ Cardinality(C2_members(placed[j].host)) <= 9

\* C3: placing with the "no neighbour" sentinel as neighbour gives what
\* placing with the host cell as neighbour gives, positions or failure.
C3_SentinelIsHost ==
    \A i \in Calls :
        Sentinel(placed[i].neighbour) =>
            placed[i].result =
                calc_fibre_placement(placed[i].host, placed[i].host, pmt_file, panelinfo)
C3_Witness ==
    \E i \in Calls :
        /\ Sentinel(placed[i].neighbour)
        /\ placed[i].result.ok
        /\ Separated(placed[i].result)

\* C4: whenever the placement returns, the distance between positionA and
\* positionB is 2 * fibre_separation.
C4_Separation ==
    \A i \in Calls :
        placed[i].result.ok =>
            LET d == VSub(placed[i].result.A, placed[i].result.B)
            IN  Dot(d, d) = (2 * fibre_separation) * (2 * fibre_separation)

\* C5: whenever the placement returns, positionA + positionB is twice
\* plate_vec = host_vec + cent_to_neig_unit * (hex_radius + plate_height).
C5_SymmetricAboutPlate ==
    \A i \in Calls :
        placed[i].result.ok =>
            LET g == get_pmt_coordinates(placed[i].host, placed[i].neighbour, pmt_file)
                unit == SetMag(VSub(g.neighbour_vec, g.central_vec), ONE)
                plate == VAdd(g.host_vec, VScale(unit, hex_radius + plate_height))
            IN  VAdd(placed[i].result.A, placed[i].result.B) = VAdd(plate, plate)
C5_Witness ==
    \E i \in Calls : placed[i].result.ok /\ Separated(placed[i].result)

\* a discrepancy was printed for the fibre; x off by more than 1 cm
C6_Reported(fibre) ==
    \E k \in 1..Len(printed) : printed[k].kind = "discrepancy" /\ printed[k].fibre = fibre
C6_Off(fibre, pos) == Abs(fibre_db[fibre].x - 10 * pos.x) > 10 * ONE
\* C6: a fibre with a position in the database and a placement is reported
\* exactly when |x / 10 - computed x| > 1, the computed x being that of
\* positionB for a name ending in "B" and of positionA for any other; y and
\* z play no part.
C6_DiscrepancyOnX ==
    \A i \in Calls :
        LET fibre == placed[i].fibre
        IN  (placed[i].result.ok /\ fibre \in DOMAIN fibre_db) =>
                (C6_Reported(fibre) <=>
                    IF fibre[Len(fibre)] = "B"
                    THEN C6_Off(fibre, placed[i].result.B)
                    ELSE C6_Off(fibre, placed[i].result.A))
C6_Witness ==
    \E i, j \in Calls :
        \* a "B" fibre reported on positionB that positionA would have passed
        /\ placed[i].result.ok /\ placed[i].fibre \in DOMAIN fibre_db
        /\ placed[i].fibre[Len(placed[i].fibre)] = "B"
        /\ C6_Reported(placed[i].fibre)
        /\ ~C6_Off(placed[i].fibre, placed[i].result.A)
        \* a fibre not reported whose y is metres away from the database's
        /\ placed[j].result.ok /\ placed[j].fibre \in DOMAIN fibre_db
        /\ ~C6_Reported(placed[j].fibre)
        /\ Abs(fibre_db[placed[j].fibre].y - 10 * placed[j].result.A.y) > 100 * ONE

\* the loop is at a fibre without a table in the database
C7_Missing ==
    /\ n \in 1..Len(fibres)
    /\ fibres[n] \notin DOMAIN fibre_db
    /\ \/ pc = "compare" /\ placement(fibres[n]).result.ok
       \/ pc = "make" /\ ~IsFT(fibres[n])
\* C7: a fibre without a table in the database is skipped by both batch
\* operations (in the comparison when its placement succeeds, in
\* make_new_db_files when its name does not start with "FT"): nothing is
\* reported or saved for it and the loop goes on to the next fibre.
C7_MissingRecordSkipped ==
    [][ C7_Missing =>
          /\ n' = n + 1
          /\ pc' = pc
          /\ new_tables' = new_tables
          /\ \A k \in 1..Len(printed') : printed'[k].kind # "discrepancy" \/ k <= Len(printed)
          /\ SubSeq(printed', 1, Len(printed)) = printed ]_vars
C7_Witness ==
    /\ task = "make"
    /\ pc = "done"
    /\ \E i, j \in 1..Len(fibres) :
          /\ i < j
          /\ ~IsFT(fibres[i])
          /\ fibres[i] \notin DOMAIN fibre_db
          /\ fibres[i] \notin DOMAIN new_tables
          /\ fibres[j] \in DOMAIN new_tables

\* C8: make_new_db_files saves pointing_angle 0 for every fibre whose name
\* starts with "FT", whatever the database holds for it.
C8_FTAngleZero ==
    \A i \in 1..Len(fibres) :
        (/\ task = "make"
         /\ IsFT(fibres[i])
         /\ i < n \/ (Ended /\ i = n))
        => /\ fibres[i] \in DOMAIN new_tables
           /\ new_tables[fibres[i]].pointing_angle = 0

\* C9, as claimed: a host or a neighbour (other than the sentinel) without a
\* row in the PMT file makes the placement fail.
C9_UnresolvableFails ==
    \A i \in Calls :
        (Absent(placed[i].host) \/ (~Sentinel(placed[i].neighbour) /\ Absent(placed[i].neighbour)))
            => ~placed[i].result.ok
\* C9, amended: a host without a row in the PMT file makes the placement
\* fail; a neighbour (other than the sentinel) without a row does not: the
\* placement is that of the host as its own neighbour.
C9_HostFailsNeighbourFallsBack ==
    \A i \in Calls :
        /\ Absent(placed[i].host) =>
              /\ ~placed[i].result.ok
              /\ placed[i].result.error = "UnboundLocalError"
        /\ (~Absent(placed[i].host) /\ ~Sentinel(placed[i].neighbour)
                /\ Absent(placed[i].neighbour)) =>
              placed[i].result =
                  calc_fibre_placement(placed[i].host, placed[i].host, pmt_file, panelinfo)
C9_Witness ==
    \E i, j \in Calls :
        /\ ~Absent(placed[i].host)
        /\ ~Sentinel(placed[i].neighbour) /\ Absent(placed[i].neighbour)
        /\ placed[i].result.ok /\ Separated(placed[i].result)
        /\ Absent(placed[j].host)

\* every fibre of the list is a key of the three tables; a row is consumed
C10_Complete(fs, nd, ph, nh) ==
    \A i \in 1..Len(fs) : fs[i] \in DOMAIN nd /\ fs[i] \in DOMAIN ph /\ fs[i] \in DOMAIN nh
C10_RowDone == pc = "read" /\ row_no <= Len(install) /\ row_no' = row_no + 1
\* C10: every fibre of the list read has a node, a host hex and a neighbour
\* hex; a row of an "FT" fibre adds name+"A" and name+"B" with the same
\* node, host and neighbour; a row whose first field is no integer adds
\* nothing.
C10_ReadInstallTable ==
    [][ /\ C10_Complete(fibres', nodes', pmt_hex', neighbour_hex')
        /\ (C10_RowDone /\ IsInt(install[row_no][1])
              /\ IsFT(row_fibre(install[row_no]))) =>
              LET a == row_fibre(install[row_no]) \o <<"A">>
                  b == row_fibre(install[row_no]) \o <<"B">>
              IN  /\ fibres' = fibres \o << a, b >>
                  /\ nodes'[a] = nodes'[b]
                  /\ pmt_hex'[a] = pmt_hex'[b]
                  /\ neighbour_hex'[a] = neighbour_hex'[b]
        /\ (C10_RowDone /\ ~IsInt(install[row_no][1])) =>
              UNCHANGED << fibres, nodes, pmt_hex, neighbour_hex >> ]_vars
C10_Witness ==
    /\ pc \in {"compare", "make"}
    /\ \E i, j \in 1..Len(install) :
          /\ ~IsInt(install[i][1])
          /\ IsInt(install[j][1])
          /\ IsFT(row_fibre(install[j]))
    /\ Len(fibres) = 2

====
